---- MODULE Spec2Model ----
(***************************************************************************)
(* A model of src/syncer.py: the directory based queue of PagerDuty events *)
(* (PagerDutyQueue), the classification of one delivery attempt            *)
(* (PagerDutyClient.submit_event) and the program's entry point, run by    *)
(* several operating system processes against one queue directory.         *)
(*                                                                         *)
(* A process slot runs one invocation of the program at a time; every      *)
(* system call of the invocation is one step, so that the steps of two     *)
(* invocations interleave the way two processes do.                        *)
(***************************************************************************)
EXTENDS Integers, Sequences, FiniteSets, TLC

\* ------------------------------------------------------------------ bounds
\* The clock reads 0..MaxTime (int(time.time())).
MaxTime == 1
\* The invocations that enqueue an event have the process ids 1..MaxPid,
\* each its own: MaxPid events are enqueued at most.
MaxPid == 2

\* The slots in which invocations of the program run concurrently.
Procs == {"a", "b"}
NoProc == "none"
\* The events an invocation may be asked to enqueue (json.dumps(event)).
Events == {"e1"}
NoEvent == "noevent"
\* Three arguments whose message body Zabbix.event() cannot take apart.
BadArgs == "badargs"
\* The content of a file that open(..., "w") has created or truncated and
\* that nothing has been written to yet.
Empty == ""

\* ------------------------------------------------------------------ names
\* A file name of the queue directory.  kind "pd" is pd_<ts>_<pid>; kind
\* "lockfile" is the lock marker; ts and pid are 0 where the name has none.
PdName(t, p) == [kind |-> "pd", ts |-> t, pid |-> p]
LockFile == [kind |-> "lockfile", ts |-> 0, pid |-> 0]

\* re.compile("pd_").match(name): the name starts with pd_.
pd_names_match(n) == n.kind \in {"pd", "pd_nots"}
\* re.search('pd_(\d+)_', name) finds a timestamp.
has_timestamp(n) == n.kind = "pd"
\* int(re.search('pd_(\d+)_', name).group(1))
file_timestamp(n) == n.ts

\* ------------------------------------------------------------------ state
VARIABLES
    dir,         \* the queue directory: [exists, r, w]
    canCreate,   \* os.mkdir of the queue directory would succeed
    files,       \* the directory's files: name -> content
    lockHolder,  \* the process holding the lock on lockfile, or NoProc
    nextPid,     \* the process id of the next invocation that enqueues
    pc,          \* where each invocation is
    pid,         \* os.getpid() of an invocation that enqueues, or 0
    event,       \* the event of the invocation's arguments, NoEvent or BadArgs
    file_name,   \* enqueue's file_name
    file_names,  \* _flush_queue's file_names
    idx,         \* how many entries of file_names the loop has finished
    json_event,  \* submit_event's json_event
    response,    \* what the delivery attempt of the current entry met
    retry,       \* submit_event's result: retry
    incident_key,\* submit_event's result: incident_key
    results,     \* the outcome each submission of the pass returned
    exc          \* the exception raised in the invocation, or "none"

vars == <<dir, canCreate, files, lockHolder, nextPid, pc, pid, event,
          file_name, file_names, idx, json_event, response, retry,
          incident_key, results, exc>>

procVars == <<pid, event, file_name, file_names, idx, json_event, response,
              retry, incident_key, results, exc>>

NoName == [kind |-> "none", ts |-> 0, pid |-> 0]
NoResponse == [kind |-> "none", code |-> 0]
\* A directory without files.
EmptyDir == [n \in {} |-> Empty]

\* ------------------------------------------------------------ file system
\* open(name, "w") and close: the file exists, with content c.
WriteFile(fs, n, c) == [x \in DOMAIN fs \cup {n} |-> IF x = n THEN c ELSE fs[x]]
\* os.remove(name) of a file that exists.
RemoveFile(fs, n) == [x \in DOMAIN fs \ {n} |-> fs[x]]
\* os.listdir: the names of the directory, in an order the file system picks.
Listings(fs) ==
    {l \in [1..Cardinality(DOMAIN fs) -> DOMAIN fs] :
        \A i, j \in DOMAIN l : l[i] = l[j] => i = j}


Init ==
    /\ dir \in {d \in [exists : BOOLEAN, r : BOOLEAN, w : BOOLEAN] :
                    ~d.exists => (~d.r /\ ~d.w)}
    /\ canCreate \in {c \in BOOLEAN : dir.exists => ~c}
    /\ files = EmptyDir
    /\ lockHolder = NoProc
    /\ nextPid = 1
    /\ pc = [p \in Procs |-> "idle"]
    /\ pid = [p \in Procs |-> 0]
    /\ event = [p \in Procs |-> NoEvent]
    /\ file_name = [p \in Procs |-> NoName]
    /\ file_names = [p \in Procs |-> << >>]
    /\ idx = [p \in Procs |-> 0]
    /\ json_event = [p \in Procs |-> Empty]
    /\ response = [p \in Procs |-> NoResponse]
    /\ retry = [p \in Procs |-> FALSE]
    /\ incident_key = [p \in Procs |-> FALSE]
    /\ results = [p \in Procs |-> << >>]
    /\ exc = [p \in Procs |-> "none"]

\* int(time.time()): what the wall clock may read (nothing keeps it from
\* being set back between two readings).
Clock == 0..MaxTime

\* The program is started: with the three arguments of Zabbix (an event to
\* enqueue, or a body that is none) or without them.  The process has an id
\* no other process has; the model tells the ids of the processes apart
\* that read theirs, those that enqueue.  PagerDutyQueue() is entered, and
\* _create_queue_dir makes its test: os.access(queue_dir, os.F_OK).
Start(p) ==
    /\ pc[p] = "idle"
    /\ \E e \in Events \cup {NoEvent, BadArgs} :
          /\ e \in Events => nextPid <= MaxPid
          /\ event' = [event EXCEPT ![p] = e]
          /\ pid' = [pid EXCEPT ![p] = IF e \in Events THEN nextPid ELSE 0]
          /\ nextPid' = IF e \in Events THEN nextPid + 1 ELSE nextPid
    /\ pc' = [pc EXCEPT ![p] = IF dir.exists THEN "verify" ELSE "mkdir"]
    /\ UNCHANGED <<dir, canCreate, files, lockHolder, file_name,
                   file_names, idx, json_event, response, retry,
                   incident_key, results, exc>>

\* ---------------------------------------------- PagerDutyQueue.__init__
\* _create_queue_dir, os.mkdir(queue_dir, 0700): raises OSError where the
\* directory cannot be created, and where another process has created it
\* since the test.
Mkdir(p) ==
    /\ pc[p] = "mkdir"
    /\ IF canCreate
          THEN /\ dir' = [exists |-> TRUE, r |-> TRUE, w |-> TRUE]
               /\ canCreate' = FALSE
               /\ pc' = [pc EXCEPT ![p] = "verify"]
               /\ exc' = exc
          ELSE /\ UNCHANGED <<dir, canCreate>>
               /\ pc' = [pc EXCEPT ![p] = "failed"]
               /\ exc' = [exc EXCEPT ![p] = "OSError"]
    /\ UNCHANGED <<files, lockHolder, nextPid, pid, event,
                   file_name, file_names, idx, json_event, response, retry,
                   incident_key, results>>

\* A permission test that forgets the write access.
CanReadWrite_ReadOnly == dir.r

\* _verify_permissions, its test: os.access R_OK and os.access W_OK.
CanReadWrite == dir.r /\ dir.w

\* _verify_permissions raises Exception without read and write access;
\* otherwise __init__ returns and the program goes on: to enqueue with the
\* arguments of Zabbix (Zabbix.event() raises KeyError on a body without
\* its keys, and the program ends), to lock_and_flush_queue without.
Verify(p) ==
    /\ pc[p] = "verify"
    /\ IF CanReadWrite
          THEN /\ pc' = [pc EXCEPT ![p] =
                            IF event[p] = NoEvent THEN "open_lock"
                            ELSE IF event[p] = BadArgs THEN "crashed"
                            ELSE "enqueue"]
               /\ exc' = [exc EXCEPT ![p] =
                             IF event[p] = BadArgs THEN "KeyError" ELSE @]
          ELSE /\ pc' = [pc EXCEPT ![p] = "failed"]
               /\ exc' = [exc EXCEPT ![p] = "Exception"]
    /\ UNCHANGED <<dir, canCreate, files, lockHolder, nextPid, pid, event,
                   file_name, file_names, idx, json_event, response, retry,
                   incident_key, results>>

\* ----------------------------------------------- PagerDutyQueue.enqueue
\* The name enqueue gives the file: pd_<time_seconds>_<os.getpid()>.
EnqueueName(t, p) == PdName(t, pid[p])

\* time_seconds = int(time.time()) and open(file_name, "w", 0600): the file
\* is created, or truncated, under its final name, and is empty.
EnqueueOpen(p) ==
    /\ pc[p] = "enqueue"
    /\ \E t \in Clock :
          /\ file_name' = [file_name EXCEPT ![p] = EnqueueName(t, p)]
          /\ files' = WriteFile(files, EnqueueName(t, p), Empty)
    /\ pc' = [pc EXCEPT ![p] = "enqueue_write"]
    /\ UNCHANGED <<dir, canCreate, lockHolder, nextPid, pid, event,
                   file_names, idx, json_event, response, retry,
                   incident_key, results, exc>>

\* f.write(encoded_event) and the close of the with block: the content
\* reaches the file, when the name still leads to it.  enqueue returns;
\* its locals, the event and the process id are not read again.
EnqueueWrite(p) ==
    /\ pc[p] = "enqueue_write"
    /\ files' = IF file_name[p] \in DOMAIN files
                   THEN WriteFile(files, file_name[p], event[p])
                   ELSE files
    /\ file_name' = [file_name EXCEPT ![p] = NoName]
    /\ event' = [event EXCEPT ![p] = NoEvent]
    /\ pid' = [pid EXCEPT ![p] = 0]
    /\ pc' = [pc EXCEPT ![p] = "open_lock"]
    /\ UNCHANGED <<dir, canCreate, lockHolder, nextPid, file_names,
                   idx, json_event, response, retry, incident_key, results,
                   exc>>

\* ------------------------------------------ PagerDutyClient.submit_event
\* The HTTP status codes of the model: one below, two inside and one above
\* the range of the client errors.
HttpCodes == {304, 400, 499, 500}

\* What one delivery attempt can meet: a response whose JSON says success,
\* one whose JSON says something else, one that is no JSON; an HTTPError
\* with a status code; a URLError that is no HTTPError (no connection: it
\* has a reason and no code); a socket.error while the response is read.
Responses ==
    {[kind |-> k, code |-> 200] : k \in {"success", "failure", "garbled"}}
    \cup {[kind |-> "HTTPError", code |-> c] : c \in HttpCodes}
    \cup {[kind |-> k, code |-> 0] : k \in {"URLError", "socket.error"}}

\* The test of the handler of urllib2.URLError: a client error.
IsClientError(code) == code >= 400 /\ code < 500

\* submit_event from urllib2.urlopen on: what it returns, (retry,
\* incident_key), or the exception that leaves it.  json.loads raises
\* ValueError; e.code of a URLError without code raises AttributeError;
\* socket.error is no URLError and leaves submit_event as it is (it is an
\* IOError).
submit_event(resp) ==
    CASE resp.kind = "success" ->
            [raises |-> "none", retry |-> FALSE, incident_key |-> TRUE]
      [] resp.kind = "failure" ->
            [raises |-> "none", retry |-> FALSE, incident_key |-> FALSE]
      [] resp.kind = "garbled" ->
            [raises |-> "ValueError", retry |-> FALSE, incident_key |-> FALSE]
      [] resp.kind = "HTTPError" ->
            [raises |-> "none", retry |-> ~IsClientError(resp.code),
             incident_key |-> FALSE]
      [] resp.kind = "URLError" ->
            [raises |-> "AttributeError", retry |-> FALSE,
             incident_key |-> FALSE]
      [] resp.kind = "socket.error" ->
            [raises |-> "IOError", retry |-> FALSE, incident_key |-> FALSE]

\* The outcome a returned (retry, incident_key) stands for.
Outcome(r, k) ==
    IF r THEN "deferred" ELSE IF k THEN "accepted" ELSE "rejected"

\* ---------------------------------- PagerDutyQueue.lock_and_flush_queue
\* open("%s/lockfile", "w"): the lock marker is created, or truncated.
OpenLock(p) ==
    /\ pc[p] = "open_lock"
    /\ files' = WriteFile(files, LockFile, Empty)
    /\ pc' = [pc EXCEPT ![p] = "lockf"]
    /\ UNCHANGED <<dir, canCreate, lockHolder, nextPid, procVars>>

\* A lock test that lets every process in.
LockAvailable_Always(p) == TRUE

\* fcntl.lockf(LOCK_EX | LOCK_NB) succeeds when no other process holds a
\* lock on the file.
LockAvailable(p) == lockHolder \in {NoProc, p}

\* A lockf without LOCK_NB: the call returns once the lock is free.
Lockf_Blocking(p) ==
    /\ pc[p] = "lockf"
    /\ lockHolder \in {NoProc, p}
    /\ lockHolder' = p
    /\ pc' = [pc EXCEPT ![p] = "list"]
    /\ UNCHANGED <<dir, canCreate, files, nextPid, pid, event, file_name,
                   file_names, idx, json_event, response, retry,
                   incident_key, results, exc>>

\* fcntl.lockf(LOCK_EX | LOCK_NB): the lock is taken, or IOError is raised
\* at once and handled by the except clause.
Lockf(p) ==
    /\ pc[p] = "lockf"
    /\ IF LockAvailable(p)
          THEN /\ lockHolder' = p
               /\ pc' = [pc EXCEPT ![p] = "list"]
               /\ exc' = exc
          ELSE /\ lockHolder' = lockHolder
               /\ pc' = [pc EXCEPT ![p] = "unlock"]
               /\ exc' = [exc EXCEPT ![p] = "IOError"]
    /\ UNCHANGED <<dir, canCreate, files, nextPid, pid, event, file_name,
                   file_names, idx, json_event, response, retry,
                   incident_key, results>>

\* ------------------------------------------ PagerDutyQueue._queued_files
\* filter(pd_names.match, files)
pd_file_names(listing) == SelectSeq(listing, pd_names_match)

\* sorted(pd_file_names, key=file_timestamp): the orders sorted() may give
\* (it is stable, so one), by insertion.
RECURSIVE sorted_file_names(_)
sorted_file_names(s) ==
    IF s = << >> THEN << >>
    ELSE LET rest == sorted_file_names(Tail(s))
             k == Cardinality({i \in DOMAIN rest :
                                  file_timestamp(rest[i]) < file_timestamp(Head(s))})
         IN SubSeq(rest, 1, k) \o <<Head(s)>> \o SubSeq(rest, k + 1, Len(rest))

\* file_timestamp raises AttributeError on a name re.search finds no
\* timestamp in, and sorted() calls it on every name.
SortRaises(listing) ==
    \E i \in DOMAIN pd_file_names(listing) : ~has_timestamp(pd_file_names(listing)[i])

\* What _queued_files returns: the sorted list is computed and dropped,
\* pd_file_names is returned.
queued_files(listing) ==
    LET sorted == sorted_file_names(pd_file_names(listing))
    IN pd_file_names(listing)

\* ------------------------------------------- PagerDutyQueue._flush_queue
\* for file_name in file_names: the loop goes on with the next entry, or it
\* is over and _flush_queue returns.
LoopOrEnd(done, names) == IF done < Len(names) THEN "loop" ELSE "unlock"

\* file_names = self._queued_files()
List(p) ==
    /\ pc[p] = "list"
    /\ \E listing \in Listings(files) :
          IF SortRaises(listing)
             THEN /\ exc' = [exc EXCEPT ![p] = "AttributeError"]
                  /\ pc' = [pc EXCEPT ![p] = "unlock"]
                  /\ UNCHANGED file_names
             ELSE /\ file_names' = [file_names EXCEPT ![p] = queued_files(listing)]
                  /\ pc' = [pc EXCEPT ![p] = LoopOrEnd(0, queued_files(listing))]
                  /\ exc' = exc
    /\ UNCHANGED <<dir, canCreate, files, lockHolder, nextPid, pid, event,
                   file_name, idx, json_event, response, retry,
                   incident_key, results>>

\* A loop that looks into the directory again and takes an entry that came
\* after the listing, where there is one.
Current_Relisted(p) ==
    LET late == {n \in DOMAIN files :
                    n.kind = "pd" /\ \A i \in DOMAIN file_names[p] : file_names[p][i] # n}
    IN IF late # {} THEN CHOOSE n \in late : TRUE
       ELSE file_names[p][idx[p] + 1]

\* The entry the loop is at.
Current(p) == file_names[p][idx[p] + 1]

\* submit_event, open(file_path, "r") and event_file.read(): IOError where
\* the file is gone.
SubmitRead(p) ==
    /\ pc[p] = "loop"
    /\ IF Current(p) \in DOMAIN files
          THEN /\ json_event' = [json_event EXCEPT ![p] = files[Current(p)]]
               /\ pc' = [pc EXCEPT ![p] = "urlopen"]
               /\ exc' = exc
          ELSE /\ json_event' = json_event
               /\ pc' = [pc EXCEPT ![p] = "unlock"]
               /\ exc' = [exc EXCEPT ![p] = "IOError"]
    /\ UNCHANGED <<dir, canCreate, files, lockHolder, nextPid, pid, event,
                   file_name, file_names, idx, response, retry,
                   incident_key, results>>

\* submit_event, the request and its classification: it returns (retry,
\* incident_key) or an exception leaves it, and with it _flush_queue.
SubmitRequest(p) ==
    /\ pc[p] = "urlopen"
    /\ \E resp \in Responses :
          LET got == submit_event(resp) IN
          /\ response' = [response EXCEPT ![p] = resp]
          /\ IF got.raises = "none"
                THEN /\ retry' = [retry EXCEPT ![p] = got.retry]
                     /\ incident_key' = [incident_key EXCEPT ![p] = got.incident_key]
                     /\ results' = [results EXCEPT ![p] =
                            Append(@, Outcome(got.retry, got.incident_key))]
                     /\ pc' = [pc EXCEPT ![p] = "returned"]
                     /\ exc' = exc
                ELSE /\ UNCHANGED <<retry, incident_key, results>>
                     /\ pc' = [pc EXCEPT ![p] = "unlock"]
                     /\ exc' = [exc EXCEPT ![p] = got.raises]
    /\ UNCHANGED <<dir, canCreate, files, lockHolder, nextPid, pid, event,
                   file_name, file_names, idx, json_event>>

\* A removal test that looks at the incident key instead.
ShouldRemove_OnlyAccepted(r, k) == k

\* A removal that follows every submission that returned.
ShouldRemove_Always(r, k) == TRUE

\* if not retry
ShouldRemove(r, k) == ~r

\* if not retry: os.remove(file_path), which raises OSError where the file
\* is gone; then the loop goes on to the next entry, and what the
\* iteration read and got is not read again.
AfterSubmit(p) ==
    /\ pc[p] = "returned"
    /\ IF ShouldRemove(retry[p], incident_key[p]) /\ Current(p) \notin DOMAIN files
          THEN /\ exc' = [exc EXCEPT ![p] = "OSError"]
               /\ pc' = [pc EXCEPT ![p] = "unlock"]
               /\ UNCHANGED <<files, idx, json_event, response, retry,
                              incident_key>>
          ELSE /\ files' = IF ShouldRemove(retry[p], incident_key[p])
                              THEN RemoveFile(files, Current(p))
                              ELSE files
               /\ idx' = [idx EXCEPT ![p] = @ + 1]
               /\ json_event' = [json_event EXCEPT ![p] = Empty]
               /\ response' = [response EXCEPT ![p] = NoResponse]
               /\ retry' = [retry EXCEPT ![p] = FALSE]
               /\ incident_key' = [incident_key EXCEPT ![p] = FALSE]
               /\ pc' = [pc EXCEPT ![p] = LoopOrEnd(idx[p] + 1, file_names[p])]
               /\ exc' = exc
    /\ UNCHANGED <<dir, canCreate, lockHolder, nextPid, pid, event,
                   file_name, file_names, results>>

\* The except clause handles IOError alone; every other exception leaves
\* lock_and_flush_queue once the finally clause has run.
Handled(e) == e \in {"none", "IOError"}

\* An unlock that runs on the path without exception alone (no finally).
lockf_UN_NoFinally(p) ==
    IF lockHolder = p /\ exc[p] = "none" THEN NoProc ELSE lockHolder

\* An unlock that frees the lock whoever holds it.
lockf_UN_Anyones(p) == NoProc

\* fcntl.lockf(LOCK_UN) by p: the lock of this process is released, and
\* the lock of no other process.
lockf_UN(p) == IF lockHolder = p THEN NoProc ELSE lockHolder

\* finally: fcntl.lockf(LOCK_UN), on every path out of the try block; then
\* lock_and_flush_queue returns (an IOError is handled and over), or the
\* exception goes on and ends the program.  The locals of the pass are
\* gone.
Unlock(p) ==
    /\ pc[p] = "unlock"
    /\ lockHolder' = lockf_UN(p)
    /\ pc' = [pc EXCEPT ![p] = IF Handled(exc[p]) THEN "done" ELSE "crashed"]
    /\ file_names' = [file_names EXCEPT ![p] = << >>]
    /\ idx' = [idx EXCEPT ![p] = 0]
    /\ json_event' = [json_event EXCEPT ![p] = Empty]
    /\ response' = [response EXCEPT ![p] = NoResponse]
    /\ retry' = [retry EXCEPT ![p] = FALSE]
    /\ incident_key' = [incident_key EXCEPT ![p] = FALSE]
    /\ results' = [results EXCEPT ![p] = << >>]
    /\ exc' = [exc EXCEPT ![p] = IF Handled(@) THEN "none" ELSE @]
    /\ UNCHANGED <<dir, canCreate, files, nextPid, pid, event, file_name>>

\* ------------------------------------------------------------- __main__
\* The process is over (__init__ raised, lock_and_flush_queue returned or
\* an exception left it); the slot is free for the next invocation.
Exit(p) ==
    /\ pc[p] \in {"done", "crashed", "failed"}
    /\ pc' = [pc EXCEPT ![p] = "idle"]
    /\ pid' = [pid EXCEPT ![p] = 0]
    /\ event' = [event EXCEPT ![p] = NoEvent]
    /\ exc' = [exc EXCEPT ![p] = "none"]
    /\ UNCHANGED <<dir, canCreate, files, lockHolder, nextPid, file_name,
                   file_names, idx, json_event, response, retry,
                   incident_key, results>>

Next ==
    \/ \E p \in Procs : Start(p)
    \/ \E p \in Procs : Mkdir(p)
    \/ \E p \in Procs : Verify(p)
    \/ \E p \in Procs : EnqueueOpen(p)
    \/ \E p \in Procs : EnqueueWrite(p)
    \/ \E p \in Procs : OpenLock(p)
    \/ \E p \in Procs : Lockf(p)
    \/ \E p \in Procs : List(p)
    \/ \E p \in Procs : SubmitRead(p)
    \/ \E p \in Procs : SubmitRequest(p)
    \/ \E p \in Procs : AfterSubmit(p)
    \/ \E p \in Procs : Unlock(p)
    \/ \E p \in Procs : Exit(p)

Spec == Init /\ [][Next]_vars

\* The steps of p in enqueue, and at the open of the lock marker, the
\* lockf and the unlock of lock_and_flush_queue.
LocalStep(p) ==
    EnqueueOpen(p) \/ EnqueueWrite(p) \/ OpenLock(p) \/ Lockf(p) \/ Unlock(p)

\* An invocation without arguments is started: it flushes the queue.
StartFlush(p) == Start(p) /\ event'[p] = NoEvent

\* The steps of the program in slot p, from the start of a flush
\* invocation to the end of the process.
Run(p) ==
    \/ StartFlush(p) \/ Mkdir(p) \/ Verify(p) \/ EnqueueOpen(p) \/ EnqueueWrite(p)
    \/ OpenLock(p) \/ Lockf(p) \/ List(p) \/ SubmitRead(p) \/ SubmitRequest(p)
    \/ AfterSubmit(p) \/ Unlock(p) \/ Exit(p)

\* The program where flush invocations keep being started, every process
\* goes on running and every request comes back, by a response or by an
\* exception.
SpecFair == Spec /\ \A p \in Procs : WF_vars(Run(p))

\* ------------------------------------------------------------ environment
\* An operator purges an entry of the queue by hand, at any time.
OperatorRemove ==
    /\ \E n \in DOMAIN files :
          /\ n.kind = "pd"
          /\ files' = RemoveFile(files, n)
    /\ UNCHANGED <<dir, canCreate, lockHolder, nextPid, pc, procVars>>

NextOp == Next \/ OperatorRemove

\* The program next to an operator who removes entries by hand.
SpecOp == Init /\ [][NextOp]_vars

\* The system gives the process id of a process that is over to a new
\* process: with no invocation alive, the next os.getpid() may return a
\* number that an earlier invocation had.
PidReuse ==
    /\ \A p \in Procs : pc[p] = "idle"
    /\ nextPid > 1
    /\ nextPid' = 1
    /\ UNCHANGED <<dir, canCreate, files, lockHolder, pc, procVars>>

NextReuse == Next \/ PidReuse

\* The program on a system that uses process ids again.
SpecReuse == Init /\ [][NextReuse]_vars

\* Names of files that are in the queue directory and are no entries:
\* one that starts with pd_ and has no pd_<digits>_ in it (pd_notes), and
\* one that does not start with pd_ (README).
ForeignNames == {[kind |-> k, ts |-> 0, pid |-> 0] : k \in {"pd_nots", "other"}}

\* Something else than the program puts a file into the queue directory;
\* os.listdir returns its name with the others.
ForeignFile ==
    /\ dir.exists
    /\ \E n \in ForeignNames \ DOMAIN files :
          files' = WriteFile(files, n, Empty)
    /\ UNCHANGED <<dir, canCreate, lockHolder, nextPid, pc, procVars>>

NextForeign == Next \/ ForeignFile

\* The program over a queue directory that holds files of others.
SpecForeign == Init /\ [][NextForeign]_vars

\* A lock that outlives the process that took it.
ReleasedAtExit_Never(p) == lockHolder

\* The lock of fcntl.lockf is a record lock of the process on the open
\* lockfile: when the process is over the file is closed and the lock is
\* gone, whatever ended the process.
ReleasedAtExit(p) == IF lockHolder = p THEN NoProc ELSE lockHolder

\* The process that holds the lock is killed inside its pass: no except
\* and no finally clause runs, its locals are gone.
Kill(p) ==
    /\ lockHolder = p
    /\ lockHolder' = ReleasedAtExit(p)
    /\ pc' = [pc EXCEPT ![p] = "crashed"]
    /\ exc' = [exc EXCEPT ![p] = "SIGKILL"]
    /\ file_names' = [file_names EXCEPT ![p] = << >>]
    /\ idx' = [idx EXCEPT ![p] = 0]
    /\ json_event' = [json_event EXCEPT ![p] = Empty]
    /\ response' = [response EXCEPT ![p] = NoResponse]
    /\ retry' = [retry EXCEPT ![p] = FALSE]
    /\ incident_key' = [incident_key EXCEPT ![p] = FALSE]
    /\ results' = [results EXCEPT ![p] = << >>]
    /\ UNCHANGED <<dir, canCreate, files, nextPid, pid, event, file_name>>

NextKill == Next \/ \E p \in Procs : Kill(p)

\* The program where a flusher may be killed at any point of its pass.
SpecKill == Init /\ [][NextKill]_vars

\* ----------------------------------------------------------------- claims
\* p is inside _flush_queue.
InFlush(p) == pc[p] \in {"list", "loop", "urlopen", "returned"}
\* The pass of p is complete: _flush_queue has returned or was left by an
\* exception, and p, which took the lock, has not released it yet.
PassComplete(p) == pc[p] = "unlock" /\ lockHolder = p
\* The entries p has called submit_event on in this pass, in call order.
Submitted(p) ==
    SubSeq(file_names[p], 1,
           IF pc[p] \in {"urlopen", "returned"} \/ (pc[p] = "unlock" /\ exc[p] # "none")
              THEN IF idx[p] < Len(file_names[p]) THEN idx[p] + 1 ELSE idx[p]
              ELSE idx[p])
Range(s) == {s[i] : i \in DOMAIN s}
DistinctTimestamps(s) ==
    \A i, j \in DOMAIN s : i # j => file_timestamp(s[i]) # file_timestamp(s[j])

\* C1 (ordering): in a pass over entries with distinct timestamps, whatever
\* the order of the directory listing, submit_event is called on the
\* entries in strictly ascending order of timestamp.
C1_Ordering ==
    \A p \in Procs :
        DistinctTimestamps(file_names[p]) =>
            \A i, j \in DOMAIN Submitted(p) :
                i < j => file_timestamp(Submitted(p)[i]) < file_timestamp(Submitted(p)[j])

\* C2 (at most one flusher): at most one process is inside _flush_queue,
\* and it holds the lock; an invocation that did not get the lock goes to
\* its end having listed, submitted and removed nothing.
C2_AtMostOneFlusher ==
    /\ Cardinality({p \in Procs : InFlush(p)}) <= 1
    /\ \A p \in Procs : InFlush(p) => lockHolder = p
    /\ \A p \in Procs :
          (pc[p] = "unlock" /\ lockHolder # p) =>
              /\ exc[p] = "IOError"
              /\ file_names[p] = << >>
              /\ results[p] = << >>
              /\ idx[p] = 0

\* Two invocations overlap: one is submitting, the other has met the lock
\* taken and is on its way out.
C2_Witness ==
    \E p, q \in Procs :
        /\ pc[p] = "urlopen"
        /\ pc[q] = "unlock"
        /\ lockHolder = p
        /\ exc[q] = "IOError"

\* The entries of the directory.
Entries == {n \in DOMAIN files : n.kind = "pd"}
\* p takes its snapshot in this step.
ListStep(p) == pc[p] = "list" /\ pc'[p] \in {"loop", "unlock"} /\ exc'[p] = "none"
\* The entries whose submission in the pass of p, in progress or complete,
\* was deferred.
Deferred(p) ==
    IF InFlush(p) \/ PassComplete(p)
       THEN {file_names[p][i] : i \in {j \in DOMAIN results[p] : results[p][j] = "deferred"}}
       ELSE {}

\* C3 (retry preserving): from its deferral to the end of the pass, an
\* entry whose submission was deferred stays in the directory, under its
\* name and with its content; no step but the removal that follows a
\* submission takes an entry away, and the next snapshot holds every entry
\* of the directory.
C3_RetryPreserving ==
    [][ /\ \A p \in Procs : \A n \in Deferred(p) :
              /\ n \in DOMAIN files /\ n \in DOMAIN files'
              /\ files'[n] = files[n]
        /\ (\A p \in Procs : pc[p] # "returned") => Entries \subseteq Entries'
        /\ \A p \in Procs : ListStep(p) => Entries \subseteq Range(file_names'[p])
      ]_vars

\* C4 (terminal removing): an entry whose submission returned accepted or
\* rejected is gone from the directory once its iteration is over, and
\* still gone when the pass is complete.
C4_TerminalRemoving ==
    \A p \in Procs :
        (InFlush(p) \/ PassComplete(p)) =>
            \A i \in DOMAIN results[p] :
                (/\ results[p][i] \in {"accepted", "rejected"}
                 /\ (i <= idx[p] \/ PassComplete(p)))
                    => file_names[p][i] \notin DOMAIN files

\* A pass is complete in which one entry was accepted and one rejected.
C4_Witness ==
    \E p \in Procs :
        /\ PassComplete(p)
        /\ \E i, j \in DOMAIN results[p] :
              /\ results[p][i] = "accepted"
              /\ results[p][j] = "rejected"

\* C5 (isolation): a complete pass has called submit_event on every entry
\* of its snapshot, whatever happened to the entries before.
C5_Isolation ==
    \A p \in Procs :
        PassComplete(p) => Len(Submitted(p)) = Len(file_names[p])

\* C6 (idempotent removal): the removal of an entry that is gone already
\* raises nothing.
C6_IdempotentRemoval ==
    \A p \in Procs : ~(pc[p] = "unlock" /\ exc[p] = "OSError")

\* The delivery attempt of p has returned an outcome by value.
Returned(p, o) ==
    /\ pc[p] = "returned"
    /\ Outcome(retry[p], incident_key[p]) = o

\* C7 (classification): a client error is returned as rejected, a success
\* as accepted, and every other failure of the attempt as deferred.
C7_Classification ==
    \A p \in Procs :
        /\ (response[p].kind = "HTTPError" /\ response[p].code \in 400..499)
              => Returned(p, "rejected")
        /\ response[p].kind = "success" => Returned(p, "accepted")
        /\ \/ (response[p].kind = "HTTPError" /\ response[p].code \notin 400..499)
           \/ response[p].kind \in {"URLError", "socket.error"}
              => Returned(p, "deferred")

\* The queue directory is there, readable and writable.
DirOK == dir.exists /\ dir.r /\ dir.w
\* p has not left PagerDutyQueue.__init__, or __init__ has raised.
InInit(p) == pc[p] \in {"idle", "mkdir", "verify", "failed"}

\* C8 (fatal setup): an invocation is past __init__, in enqueue or in
\* lock_and_flush_queue, only with the directory there, readable and
\* writable; while the directory is missing or lacks an access, no file is
\* made, no lock is taken, nothing is listed and nothing submitted.
C8_FatalSetup ==
    /\ \A p \in Procs : ~InInit(p) => DirOK
    /\ ~DirOK => /\ files = EmptyDir
                 /\ lockHolder = NoProc
                 /\ \A p \in Procs : file_names[p] = << >> /\ results[p] = << >>

\* __init__ has raised in an invocation that was to enqueue an event: the
\* directory is there and readable, and not writable.
C8_Witness ==
    \E p \in Procs :
        /\ pc[p] = "failed"
        /\ exc[p] = "Exception"
        /\ event[p] # NoEvent
        /\ dir.exists /\ dir.r /\ ~dir.w

\* C9 (atomic visibility): what the flusher reads from an entry and submits
\* is a whole payload.
C9_AtomicVisibility ==
    \A p \in Procs : pc[p] \in {"urlopen", "returned"} => json_event[p] \in Events

\* C10 (lock release): the process that holds the lock is inside the try
\* block of lock_and_flush_queue; none that has left it holds the lock.
C10_LockReleased ==
    \A p \in Procs :
        lockHolder = p => (InFlush(p) \/ pc[p] = "unlock")

\* An exception has left lock_and_flush_queue in the middle of a pass, and
\* the lock is free.
C10_Witness ==
    \E p \in Procs :
        /\ pc[p] = "crashed"
        /\ exc[p] = "AttributeError"
        /\ lockHolder = NoProc
        /\ Entries # {}

\* C11 (no waiting): whatever the other processes do and whoever holds the
\* lock, the next step of an invocation in enqueue or at the open, the
\* lockf or the unlock of lock_and_flush_queue can be taken; a lockf that
\* meets the lock taken by another process goes to the finally clause
\* without the lock and from there to the end of lock_and_flush_queue;
\* the open of enqueue creates the file and its write ends enqueue.
C11_NoWaiting ==
    [][\A q \in Procs :
          /\ pc[q] \in {"enqueue", "enqueue_write", "open_lock", "lockf", "unlock"}
                => ENABLED LocalStep(q)
          /\ (pc[q] = "lockf" /\ lockHolder \notin {NoProc, q} /\ pc'[q] # "lockf")
                => (pc'[q] = "unlock" /\ lockHolder' = lockHolder)
          /\ (pc[q] = "unlock" /\ lockHolder # q /\ pc'[q] # "unlock")
                => (pc'[q] = "done" /\ lockHolder' = lockHolder)
          /\ (pc[q] = "enqueue" /\ pc'[q] # "enqueue")
                => (pc'[q] = "enqueue_write" /\ file_name'[q] \in DOMAIN files')
          /\ (pc[q] = "enqueue_write" /\ pc'[q] # "enqueue_write")
                => pc'[q] = "open_lock"
      ]_vars

\* While p holds the lock, in a submission, q has enqueued an entry that
\* the snapshot of p does not hold, has met the lock taken, and is through
\* lock_and_flush_queue.
C11_Witness ==
    \E p, q \in Procs :
        /\ pc[p] = "urlopen"
        /\ lockHolder = p
        /\ pc[q] = "done"
        /\ \E n \in Entries : n \notin Range(file_names[p])

\* C12 (create-only enqueue): the open of enqueue adds one file under a
\* name that was not in the directory and leaves every file that was there
\* as it was; no step changes the content of an entry that has one.
C12_CreateOnly ==
    [][ /\ \A p \in Procs :
              (pc[p] = "enqueue" /\ pc'[p] = "enqueue_write") =>
                  /\ file_name'[p] \notin DOMAIN files
                  /\ DOMAIN files' = DOMAIN files \cup {file_name'[p]}
                  /\ \A n \in DOMAIN files : files'[n] = files[n]
        /\ \A n \in Entries :
              (files[n] # Empty /\ n \in DOMAIN files') => files'[n] = files[n]
      ]_vars

\* C13 (no loss before a terminal outcome): an entry leaves the directory
\* only in the step of the process that holds the lock, is inside its
\* pass, and has just got accepted or rejected, not deferred, from the
\* submission of this entry; so an entry that was not submitted, or whose
\* submission was deferred or raised, is still in the directory.
C13_NoLoss ==
    [][\A n \in Entries :
          n \notin DOMAIN files' =>
              \E p \in Procs :
                  /\ lockHolder = p
                  /\ pc[p] = "returned"
                  /\ Current(p) = n
                  /\ ~retry[p]
                  /\ results[p][idx[p] + 1] \in {"accepted", "rejected"}
                  /\ idx'[p] = idx[p] + 1
      ]_vars

\* A pass is complete in which an entry was deferred and is in the
\* directory, and another was rejected and is gone.
C13_Witness ==
    \E p \in Procs :
        /\ PassComplete(p)
        /\ \E i, j \in 1..idx[p] :
              /\ results[p][i] = "deferred"
              /\ file_names[p][i] \in DOMAIN files
              /\ results[p][j] = "rejected"
              /\ file_names[p][j] \notin DOMAIN files

\* How often the pass of p has called submit_event on the entry n.
TimesSubmitted(p, n) ==
    Cardinality({i \in DOMAIN Submitted(p) : Submitted(p)[i] = n})

\* C14 (exactly once per pass): in a pass that took the lock no entry of
\* the snapshot is submitted twice, and when the pass is complete every
\* entry of the snapshot has been submitted once.
C14_ExactlyOncePerPass ==
    \A p \in Procs : \A n \in Range(file_names[p]) :
        /\ (InFlush(p) \/ PassComplete(p)) => TimesSubmitted(p, n) <= 1
        /\ PassComplete(p) => TimesSubmitted(p, n) = 1

\* p has listed the directory and is in the loop over its snapshot.
InLoop(p) == pc[p] \in {"loop", "urlopen", "returned"}

\* C15 (snapshot semantics): the loop runs under the lock over the one
\* listing taken at its start; the entry it submits and removes is one
\* of the listing, and an entry that is not in the listing stays in the
\* directory, with the content it has, through every step up to the end
\* of the pass.
C15_Snapshot ==
    [][\A p \in Procs :
          InLoop(p) =>
              /\ lockHolder = p
              /\ file_names'[p] = file_names[p]
              /\ Current(p) \in Range(file_names[p])
              /\ \A n \in Entries \ Range(file_names[p]) :
                    /\ n \in DOMAIN files'
                    /\ files[n] # Empty => files'[n] = files[n]
      ]_vars

\* A pass over a snapshot that was not empty is complete, and the
\* directory holds a whole entry that was enqueued after the listing.
C15_Witness ==
    \E p \in Procs :
        /\ PassComplete(p)
        /\ file_names[p] # << >>
        /\ idx[p] = Len(file_names[p])
        /\ \E n \in Entries \ Range(file_names[p]) : files[n] \in Events

\* C16 (listing filter): whatever the directory holds, the listing does
\* not fail and is the set of the entries pd_<digits>_<pid>, without the
\* lock marker and without the files that are no entries; no step removes
\* or changes a file that is no entry.
C16_ListingFilter ==
    [][ /\ \A p \in Procs :
              (pc[p] = "list" /\ pc'[p] # "list") =>
                  /\ exc'[p] = "none"
                  /\ Range(file_names'[p]) = Entries
        /\ \A n \in DOMAIN files \ Entries :
              n \in DOMAIN files' /\ files'[n] = files[n]
      ]_vars

\* p is inside the try block of lock_and_flush_queue.
InTry(p) == pc[p] \in {"list", "loop", "urlopen", "returned", "unlock"}

\* C17 (no stale lock): after every step the lock is free or its holder
\* is a process inside the try block of lock_and_flush_queue, also where
\* the holder was killed or left the pass by an exception; and a lockf
\* that runs while no other process is inside the try block takes the
\* lock, the lock marker being on the disk.
C17_NoStaleLock ==
    [][ /\ \A p \in Procs : lockHolder' = p => InTry(p)'
        /\ \A p \in Procs :
              (/\ pc[p] = "lockf" /\ pc'[p] # "lockf"
               /\ \A q \in Procs \ {p} : ~InTry(q))
                  => /\ LockFile \in DOMAIN files
                     /\ lockHolder' = p
                     /\ pc'[p] = "list"
      ]_vars

\* A process was killed while it held the lock; the lock marker is on the
\* disk, and another process has taken the lock and is in its pass.
C17_Witness ==
    \E p, q \in Procs :
        /\ pc[p] = "crashed"
        /\ exc[p] = "SIGKILL"
        /\ LockFile \in DOMAIN files
        /\ lockHolder = q
        /\ InFlush(q)

\* C18 (unlock by a process that does not hold the lock): the finally
\* clause of an invocation whose lockf failed leaves the lock with its
\* holder; a process that is inside _flush_queue before and after a step
\* holds the lock after it, and no other process is inside _flush_queue.
C18_UnlockByNonHolder ==
    [][ /\ \A q \in Procs :
              (pc[q] = "unlock" /\ lockHolder # q /\ pc'[q] # "unlock") =>
                  (lockHolder' = lockHolder /\ pc'[q] = "done")
        /\ \A p \in Procs :
              (InFlush(p) /\ InFlush(p)') =>
                  /\ lockHolder' = p
                  /\ \A q \in Procs \ {p} : ~InFlush(q)'
      ]_vars

\* p is in its pass, a submission has returned, and it holds the lock; q has
\* enqueued an entry after the listing of p, has met the lock taken, has
\* run its finally clause and is through lock_and_flush_queue.
C18_Witness ==
    \E p, q \in Procs :
        /\ pc[p] = "returned"
        /\ lockHolder = p
        /\ pc[q] = "done"
        /\ \E n \in Entries \ Range(file_names[p]) : files[n] \in Events

\* The names enqueue can give an entry.
EntryNames == {PdName(t, i) : t \in Clock, i \in 1..MaxPid}
\* A submission of the entry n returns accepted or rejected.
Terminal(n) ==
    \E p \in Procs :
        /\ SubmitRequest(p)
        /\ Current(p) = n
        /\ pc'[p] = "returned"
        /\ ~retry'[p]
\* From some point on no invocation has an event to enqueue.
EnqueuesStop == <>[](\A p \in Procs : event[p] = NoEvent)

\* C19 (liveness): where flush invocations keep being started and the
\* enqueues stop, if the submissions of every entry come to return
\* accepted or rejected, the queue comes to hold no entry for good; and
\* an entry whose own submissions come to return accepted or rejected
\* comes to be removed, whatever the submissions of the other entries do.
C19_Liveness ==
    /\ (EnqueuesStop /\ \A n \in EntryNames : SF_vars(Terminal(n)))
          => <>[](Entries = {})
    /\ \A n \in EntryNames :
          (EnqueuesStop /\ SF_vars(Terminal(n))) => <>[](n \notin Entries)

====
